---- MODULE Spec2Model ----
(***************************************************************************)
(* Model of test-rls-roles.py: the RLS role testing script.                *)
(*                                                                         *)
(* The script is one sequential process.  Each step of the model is one    *)
(* block of the script that ends in (at most) one remote call              *)
(* supabase.rpc('exec_sql', ...).execute().  The database is an external   *)
(* collaborator: every remote call either returns or raises, and that      *)
(* choice is the environment's.                                            *)
(*                                                                         *)
(* Python values: None is the empty tuple, a string s is the 1-tuple <<s>> *)
(* (so that None, the empty string and a non-empty string are three        *)
(* different values, as they are in Python).                               *)
(***************************************************************************)
EXTENDS Integers, Sequences, FiniteSets, TLC

VARIABLES
    env,             \* os.getenv values: [url, key]
    pc,              \* position of the script
    exitStatus,      \* process exit status, -1 while running
    suite,           \* which run_test call site is active (0: none / a free call)
    role_name,       \* run_test parameter
    branch_id,       \* run_test parameter (None or a string)
    user_id,         \* run_test parameter (None or a string)
    test_queries,    \* run_test parameter: sequence of (name, query, expected)
    set_claims_sql,  \* the arguments of the set_test_jwt_claims call built by run_test
    idx,             \* position of the for loop over test_queries
    dbClaims,        \* claims active on the shared connection (database side)
    log,             \* remote calls issued so far (database side)
    out,             \* lines printed so far
    faults,          \* how many more remote calls may deviate from the nominal outcome
    db,              \* rows of the database: a set of (table, id)
    run              \* which run of the script against this database: 1 or 2

vars == <<env, pc, exitStatus, suite, role_name, branch_id, user_id,
          test_queries, set_claims_sql, idx, dbClaims, log, out, faults,
          db, run>>

----------------------------------------------------------------------------
(* Bounds *)

\* number of remote calls of one run of the script whose outcome deviates
\* from the nominal one (fixture / set / clear: returns; statement: what its
\* declared expectation says)
MaxFaults == 2

\* length of the test list of a free run_test call
MaxTests == 2

----------------------------------------------------------------------------
(* Python values *)

None == <<>>
Str(s) == <<s>>

\* Python truthiness of an optional string: `not v`
Falsy(v) == v = None \/ v = Str("")

\* {'NULL' if not v else f"'{v}'"}
SqlArg(v) == IF Falsy(v) THEN "NULL" ELSE "'" \o v[1] \o "'"

\* the three arguments of SELECT set_test_jwt_claims(...)
SetClaimsSql_Swapped(role, branch, user) ==
    << "'" \o role \o "'", SqlArg(user), SqlArg(branch) >>
SetClaimsSql(role, branch, user) ==
    << "'" \o role \o "'", SqlArg(branch), SqlArg(user) >>

NoClaims == <<>>

----------------------------------------------------------------------------
(* The catalog: the five call sites of run_test and their test lists *)

Q(op, table, key) == [op |-> op, table |-> table, key |-> key]
T(name, query, expected) == [name |-> name, query |-> query, expected |-> expected]

auditor_tests == <<
    T("View all members", Q("SELECT", "Member", "*"), "SUCCESS"),
    T("View branch-001 members", Q("SELECT", "Member", "branch-001"), "SUCCESS"),
    T("View branch-002 members", Q("SELECT", "Member", "branch-002"), "SUCCESS"),
    T("Try to insert member (should fail)", Q("INSERT", "Member", "audit-test"), "FAIL"),
    T("View all loans", Q("SELECT", "Loan", "*"), "SUCCESS") >>

clerk_tests == <<
    T("View own branch members", Q("SELECT", "Member", "branch-001"), "SUCCESS"),
    T("Try to view other branch members (should show 0)", Q("SELECT", "Member", "branch-002"), "SUCCESS"),
    T("Insert member in own branch", Q("INSERT", "Member", "clerk-test-001"), "SUCCESS"),
    T("Try to insert member in other branch (should fail)", Q("INSERT", "Member", "clerk-test-002"), "FAIL"),
    T("Try to update member (should fail - clerk can only insert/select)", Q("UPDATE", "Member", "test-mem-001"), "FAIL") >>

manager_tests == <<
    T("View own branch members", Q("SELECT", "Member", "branch-002"), "SUCCESS"),
    T("Try to view other branch (should show 0)", Q("SELECT", "Member", "branch-001"), "SUCCESS"),
    T("Update member in own branch", Q("UPDATE", "Member", "test-mem-003"), "SUCCESS"),
    T("Insert member in own branch", Q("INSERT", "Member", "mgr-test-001"), "SUCCESS"),
    T("Try to delete loan (should fail - only admin)", Q("DELETE", "Loan", "test-loan-002"), "FAIL"),
    T("Try to delete member (should succeed - member table allows manager delete)", Q("DELETE", "Member", "mgr-test-001"), "SUCCESS") >>

admin_tests == <<
    T("View all members", Q("SELECT", "Member", "*"), "SUCCESS"),
    T("View branch-001 members", Q("SELECT", "Member", "branch-001"), "SUCCESS"),
    T("View branch-002 members", Q("SELECT", "Member", "branch-002"), "SUCCESS"),
    T("Update any member", Q("UPDATE", "Member", "test-mem-001"), "SUCCESS"),
    T("Insert member in any branch", Q("INSERT", "Member", "admin-test-001"), "SUCCESS"),
    T("Delete loan (should succeed - admin can delete)", Q("DELETE", "Loan", "test-loan-001"), "SUCCESS"),
    T("Delete member", Q("DELETE", "Member", "admin-test-001"), "SUCCESS") >>

member_tests == <<
    T("View own member record", Q("SELECT", "Member", "user-001"), "SUCCESS"),
    T("Try to view other members (should show 0)", Q("SELECT", "Member", "!user-001"), "SUCCESS"),
    T("View own loans", Q("SELECT", "Loan", "user-001"), "SUCCESS"),
    T("Try to insert member (should fail)", Q("INSERT", "Member", "mem-test-001"), "FAIL"),
    T("Try to update own record (should fail)", Q("UPDATE", "Member", "user-001"), "FAIL") >>

Call(role, branch, user, tests) ==
    [role |-> role, branch |-> branch, user |-> user, tests |-> tests]

\* the run_test call sites, in the order of the script
Catalog_Swapped == <<
    Call("CLERK", Str("branch-001"), Str("clerk-user-001"), clerk_tests),
    Call("AUDITOR", None, None, auditor_tests),
    Call("MANAGER", Str("branch-002"), Str("manager-user-002"), manager_tests),
    Call("ADMIN", None, Str("admin-user-000"), admin_tests),
    Call("MEMBER", None, Str("user-001"), member_tests) >>
Catalog == <<
    Call("AUDITOR", None, None, auditor_tests),
    Call("CLERK", Str("branch-001"), Str("clerk-user-001"), clerk_tests),
    Call("MANAGER", Str("branch-002"), Str("manager-user-002"), manager_tests),
    Call("ADMIN", None, Str("admin-user-000"), admin_tests),
    Call("MEMBER", None, Str("user-001"), member_tests) >>

NumSuites == Len(Catalog)

----------------------------------------------------------------------------
(* Output lines and remote calls *)

Line(text, arg) == [suite |-> suite, text |-> text, arg |-> arg]

\* one remote call: what was sent, under which active claims, and whether it
\* returned (ok) or raised
Rpc(op, sql, i, ok) ==
    [op |-> op, sql |-> sql, suite |-> suite, idx |-> i, ok |-> ok,
     claims |-> dbClaims]

\* a deviating outcome consumes one unit of the fault budget
Allowed(deviates) == deviates => faults > 0
Spend(deviates) == IF deviates THEN faults - 1 ELSE faults

----------------------------------------------------------------------------
(* Module level: configuration check, lines 15-22 *)

\* if not SUPABASE_URL or not SUPABASE_SERVICE_KEY
ConfigMissing_And(e) == Falsy(e.url) /\ Falsy(e.key)
ConfigMissing(e) == Falsy(e.url) \/ Falsy(e.key)

CheckConfig ==
    /\ pc = "config"
    /\ IF ConfigMissing(env)
       THEN /\ out' = Append(out, Line("Error: SUPABASE_URL and SUPABASE_SERVICE_ROLE_KEY must be set in .env", ""))
            /\ exitStatus' = 1                      \* exit(1)
            /\ pc' = "done"
       ELSE /\ out' = Append(out, Line("RLS ROLE TESTING SCRIPT", ""))
            /\ exitStatus' = exitStatus
            /\ pc' = "migration"                    \* create_client, banner
    /\ UNCHANGED <<db, run, env, suite, role_name, branch_id, user_id, test_queries,
                   set_claims_sql, idx, dbClaims, log, faults>>

(* Step 1: the migration, lines 29-45.  Reading the file may raise before  *)
(* any remote call is issued; the remote call may raise.  Either way the   *)
(* exception is caught and the script continues.                           *)
Migration_Fatal ==
    /\ pc = "migration"
    /\ \E fileOk \in BOOLEAN, ok \in BOOLEAN :
         /\ Allowed(~fileOk \/ ~ok)
         /\ faults' = Spend(~fileOk \/ ~ok)
         /\ log' = IF fileOk THEN Append(log, Rpc("migration", <<"migration.sql">>, 0, ok)) ELSE log
         /\ IF fileOk /\ ok
            THEN /\ out' = Append(out, Line("Migration executed successfully!", ""))
                 /\ pc' = "seed"
                 /\ exitStatus' = exitStatus
            ELSE /\ out' = Append(out, Line("Migration execution:", "error"))
                 /\ pc' = "done"
                 /\ exitStatus' = 1
    /\ UNCHANGED <<db, run, env, suite, role_name, branch_id, user_id,
                   test_queries, set_claims_sql, idx, dbClaims>>
Migration ==
    /\ pc = "migration"
    /\ \E fileOk \in BOOLEAN, ok \in BOOLEAN :
         /\ Allowed(~fileOk \/ ~ok)
         /\ faults' = Spend(~fileOk \/ ~ok)
         /\ log' = IF fileOk THEN Append(log, Rpc("migration", <<"migration.sql">>, 0, ok)) ELSE log
         /\ out' = Append(out,
                     IF fileOk /\ ok
                     THEN Line("Migration executed successfully!", "")
                     ELSE Line("Migration execution:", "Continuing with tests assuming migration is already applied..."))
    /\ pc' = "seed"
    /\ UNCHANGED <<db, run, env, exitStatus, suite, role_name, branch_id, user_id,
                   test_queries, set_claims_sql, idx, dbClaims>>

(* Step 2: the test data, lines 47-83.  A call that raised may or may not  *)
(* have taken effect.                                                      *)

\* the rows of test_data_sql
SeedRows == {
    <<"Member", "test-mem-001">>, <<"Member", "test-mem-002">>,
    <<"Member", "test-mem-003">>, <<"Member", "test-mem-004">>,
    <<"Loan", "test-loan-001">>, <<"Loan", "test-loan-002">>,
    <<"Saving", "test-sav-001">>, <<"Saving", "test-sav-002">> }

\* INSERT ... ON CONFLICT (id) DO NOTHING: rows already there are left alone
SeedData(rows) == rows \cup SeedRows

Seed ==
    /\ pc = "seed"
    /\ \E ok \in BOOLEAN :
         /\ Allowed(~ok)
         /\ faults' = Spend(~ok)
         /\ log' = Append(log, Rpc("seed", <<"test_data_sql">>, 0, ok))
         /\ out' = Append(out,
                     IF ok
                     THEN Line("Test data created successfully!", "")
                     ELSE Line("Test data creation:", "Creating test data via Supabase client instead..."))
         /\ db' \in (IF ok THEN {SeedData(db)} ELSE {db, SeedData(db)})
    /\ pc' = "tests"
    /\ UNCHANGED <<run, env, exitStatus, suite, role_name, branch_id, user_id,
                   test_queries, set_claims_sql, idx, dbClaims>>

----------------------------------------------------------------------------
(* The call sites of run_test, lines 167, 194, 225, 260, 287 *)

CallRunTest ==
    /\ pc \in {"tests", "returned"}
    /\ suite < NumSuites
    /\ suite' = suite + 1
    /\ role_name' = Catalog[suite + 1].role
    /\ branch_id' = Catalog[suite + 1].branch
    /\ user_id' = Catalog[suite + 1].user
    /\ test_queries' = Catalog[suite + 1].tests
    /\ pc' = "entry"
    /\ UNCHANGED <<db, run, env, exitStatus, set_claims_sql, idx, dbClaims, log, out, faults>>

----------------------------------------------------------------------------
(* run_test, lines 86-135 *)

\* lines 88-101: the header and the text of the claim-setting call
Header ==
    <<Line("TESTING ROLE:", role_name)>>
    \o (IF Falsy(branch_id) THEN <<>> ELSE <<Line("Branch:", branch_id[1])>>)
    \o (IF Falsy(user_id) THEN <<>> ELSE <<Line("User ID:", user_id[1])>>)

RunTestEntry ==
    /\ pc = "entry"
    /\ out' = out \o Header
    /\ set_claims_sql' = SetClaimsSql(role_name, branch_id, user_id)
    /\ idx' = 1
    /\ pc' = "set"
    /\ UNCHANGED <<db, run, env, exitStatus, suite, role_name, branch_id, user_id,
                   test_queries, dbClaims, log, faults>>

\* where the for loop of line 111 stands when its next index is i
LoopAt(i) == IF i > Len(test_queries) THEN "clear" ELSE "loop"

\* line 108: what run_test does when the claim-setting call raised
OnSetFailure_Continue == LoopAt(1)
OnSetFailure == "returned"

\* lines 103-108.  A call that raised may or may not have taken effect.
SetIdentity ==
    /\ pc = "set"
    /\ \E ok \in BOOLEAN :
         /\ Allowed(~ok)
         /\ faults' = Spend(~ok)
         /\ log' = Append(log, Rpc("set", set_claims_sql, 0, ok))
         /\ IF ok
            THEN /\ dbClaims' = set_claims_sql
                 /\ out' = Append(out, Line("JWT claims set for", role_name))
                 /\ pc' = LoopAt(1)
            ELSE /\ dbClaims' \in {dbClaims, set_claims_sql}
                 /\ out' = Append(out, Line("Failed to set JWT claims:", "error"))
                 /\ pc' = OnSetFailure
    /\ UNCHANGED <<db, run, env, exitStatus, suite, role_name, branch_id, user_id,
                   test_queries, set_claims_sql, idx>>

\* lines 115-128: the line printed for one test
VerdictLine_Lenient(expected_result, raised) ==
    IF ~raised
    THEN IF expected_result = "SUCCESS" THEN "PASS - Query executed successfully"
         ELSE IF expected_result = "FAIL" THEN "PASS - Query executed successfully"
         ELSE "Result:"
    ELSE IF expected_result = "FAIL" THEN "PASS - Query correctly blocked:"
         ELSE "FAIL - Unexpected error:"
VerdictLine_OtherAsFail(expected_result, raised) ==
    IF ~raised
    THEN IF expected_result = "SUCCESS" THEN "PASS - Query executed successfully"
         ELSE "UNEXPECTED - Query should have failed but succeeded"
    ELSE IF expected_result = "FAIL" THEN "PASS - Query correctly blocked:"
         ELSE "FAIL - Unexpected error:"
VerdictLine(expected_result, raised) ==
    IF ~raised
    THEN IF expected_result = "SUCCESS" THEN "PASS - Query executed successfully"
         ELSE IF expected_result = "FAIL" THEN "UNEXPECTED - Query should have failed but succeeded"
         ELSE "Result:"
    ELSE IF expected_result = "FAIL" THEN "PASS - Query correctly blocked:"
         ELSE "FAIL - Unexpected error:"

\* the nominal outcome of a statement is the one its expectation declares
Deviates(expected_result, raised) == raised <=> (expected_result # "FAIL")

\* line 111: the loop index after the test at index i ran
AfterTest_Abort(i, raised) == IF raised THEN Len(test_queries) + 1 ELSE i + 1
AfterTest(i, raised) == i + 1

\* what a statement that returned did to the rows
Effect(query, rows) ==
    IF query.op = "INSERT" THEN rows \cup {<<query.table, query.key>>}
    ELSE IF query.op = "DELETE" THEN rows \ {<<query.table, query.key>>}
    ELSE rows

\* lines 111-128: one iteration of the loop, whose statement raised or not
RunQueryWith(raised) ==
    LET test == test_queries[idx] IN
         /\ log' = Append(log, Rpc("query", <<test.query>>, idx, ~raised))
         /\ db' = IF raised THEN db ELSE Effect(test.query, db)
         /\ out' = out \o << Line("Test:", test.name),
                             Line(VerdictLine(test.expected, raised),
                                  IF raised THEN "error"
                                  ELSE IF test.expected \in {"SUCCESS", "FAIL"} THEN ""
                                  ELSE "data") >>
         /\ idx' = AfterTest(idx, raised)
         /\ pc' = LoopAt(AfterTest(idx, raised))
         /\ UNCHANGED <<run, env, exitStatus, suite, role_name, branch_id, user_id,
                        test_queries, set_claims_sql, dbClaims>>

\* the statement returns or raises as the environment chooses
RunQuery ==
    /\ pc = "loop"
    /\ \E raised \in BOOLEAN :
         /\ Allowed(Deviates(test_queries[idx].expected, raised))
         /\ faults' = Spend(Deviates(test_queries[idx].expected, raised))
         /\ RunQueryWith(raised)

\* A database whose policies deny exactly the statements declared FAIL and
\* which enforces primary keys: an INSERT of a row that exists raises.
DbRaises(test, rows) ==
    \/ test.expected = "FAIL"
    \/ test.query.op = "INSERT" /\ <<test.query.table, test.query.key>> \in rows

\* the statement returns or raises as that database decides
RunQueryEnforced ==
    /\ pc = "loop"
    /\ faults' = faults
    /\ RunQueryWith(DbRaises(test_queries[idx], db))

\* lines 130-135.  A call that raised may or may not have taken effect; the
\* exception is swallowed.
ClearIdentity ==
    /\ pc = "clear"
    /\ \E ok \in BOOLEAN :
         /\ Allowed(~ok)
         /\ faults' = Spend(~ok)
         /\ log' = Append(log, Rpc("clear", <<"SELECT clear_test_jwt_claims();">>, 0, ok))
         /\ IF ok
            THEN /\ dbClaims' = NoClaims
                 /\ out' = Append(out, Line("JWT claims cleared", ""))
            ELSE /\ dbClaims' \in {dbClaims, NoClaims}
                 /\ out' = out
    /\ pc' = "returned"
    /\ UNCHANGED <<db, run, env, exitStatus, suite, role_name, branch_id, user_id,
                   test_queries, set_claims_sql, idx>>

----------------------------------------------------------------------------
(* The summary, lines 292-308, and the normal end of the script *)

\* the lines of the summary block: (mark, text)
SummaryBlock == <<
    <<"", "RLS ROLE TESTING COMPLETED">>,
    <<"", "Summary of Tests:">>,
    <<"OK", "AUDITOR - Read-only access to all branches">>,
    <<"OK", "CLERK - Insert/Select in own branch only">>,
    <<"OK", "MANAGER - Full CRUD in own branch, cannot delete transactions">>,
    <<"OK", "ADMIN - Full access to all branches">>,
    <<"OK", "MEMBER - View own records only">>,
    <<"", "Next Steps:">> >>

\* a summary whose marks follow what was printed for each role
Summary_FromVerdicts ==
    /\ pc \in {"tests", "returned"}
    /\ suite = NumSuites
    /\ out' = out \o [i \in 1..Len(SummaryBlock) |->
                        [suite |-> 0,
                         text |-> IF /\ SummaryBlock[i][1] = "OK"
                                     /\ \E j \in 1..Len(out) :
                                          /\ out[j].suite = i - 2
                                          /\ out[j].text \in
                                               {"Failed to set JWT claims:",
                                                "FAIL - Unexpected error:",
                                                "UNEXPECTED - Query should have failed but succeeded"}
                                  THEN "FAILED"
                                  ELSE SummaryBlock[i][1],
                         arg |-> SummaryBlock[i][2]]]
    /\ exitStatus' = 0
    /\ pc' = "done"
    /\ UNCHANGED <<db, run, env, suite, role_name, branch_id, user_id, test_queries,
                   set_claims_sql, idx, dbClaims, log, faults>>
Summary ==
    /\ pc \in {"tests", "returned"}
    /\ suite = NumSuites
    /\ out' = out \o [i \in 1..Len(SummaryBlock) |->
                        [suite |-> 0, text |-> SummaryBlock[i][1], arg |-> SummaryBlock[i][2]]]
    /\ exitStatus' = 0
    /\ pc' = "done"
    /\ UNCHANGED <<db, run, env, suite, role_name, branch_id, user_id, test_queries,
                   set_claims_sql, idx, dbClaims, log, faults>>

----------------------------------------------------------------------------
(* The script *)

EnvValues == {None, Str(""), Str("set")}

Init ==
    /\ env \in [url : EnvValues, key : EnvValues]
    /\ pc = "config"
    /\ exitStatus = -1
    /\ suite = 0
    /\ role_name = ""
    /\ branch_id = None
    /\ user_id = None
    /\ test_queries = <<>>
    /\ set_claims_sql = <<>>
    /\ idx = 0
    /\ dbClaims = NoClaims
    /\ log = <<>>
    /\ out = <<>>
    /\ faults = MaxFaults
    /\ db \in {{}, SeedRows}
    /\ run = 1

Next ==
    \/ CheckConfig
    \/ Migration
    \/ Seed
    \/ CallRunTest
    \/ RunTestEntry
    \/ SetIdentity
    \/ RunQuery
    \/ ClearIdentity
    \/ Summary

Spec == Init /\ [][Next]_vars

\* the script is a sequential program: it keeps running until it exits
FairSpec == Spec /\ WF_vars(Next)

----------------------------------------------------------------------------
(* The script run twice against the same database, every call having its   *)
(* nominal outcome: the database is the one RunQueryEnforced describes and  *)
(* no other call raises.                                                    *)

\* the script is started again on the database the first run left
Rerun ==
    /\ pc = "done"
    /\ exitStatus = 0
    /\ run = 1
    /\ run' = 2
    /\ pc' = "config"
    /\ exitStatus' = -1
    /\ suite' = 0
    /\ role_name' = ""
    /\ branch_id' = None
    /\ user_id' = None
    /\ test_queries' = <<>>
    /\ set_claims_sql' = <<>>
    /\ idx' = 0
    /\ log' = <<>>
    /\ out' = <<>>
    /\ UNCHANGED <<env, db, dbClaims, faults>>

RepeatInit ==
    /\ env = [url |-> Str("set"), key |-> Str("set")]
    /\ pc = "config"
    /\ exitStatus = -1
    /\ suite = 0
    /\ role_name = ""
    /\ branch_id = None
    /\ user_id = None
    /\ test_queries = <<>>
    /\ set_claims_sql = <<>>
    /\ idx = 0
    /\ dbClaims = NoClaims
    /\ log = <<>>
    /\ out = <<>>
    /\ faults = 0
    /\ db \in SUBSET SeedRows
    /\ run = 1

RepeatNext ==
    \/ CheckConfig
    \/ Migration
    \/ Seed
    \/ CallRunTest
    \/ RunTestEntry
    \/ SetIdentity
    \/ RunQueryEnforced
    \/ ClearIdentity
    \/ Summary
    \/ Rerun

RepeatSpec == RepeatInit /\ [][RepeatNext]_vars

----------------------------------------------------------------------------
(* run_test called once with arbitrary arguments *)

ArgRoles == {"AUDITOR", "CLERK"}
ArgValues == {None, Str(""), Str("branch-001")}
Expectations == {"SUCCESS", "FAIL", "VALUE", "COUNT"}
ArgTests ==
    UNION { [1..n -> {T("t", Q("SELECT", "Member", "*"), e) : e \in Expectations}]
            : n \in 0..MaxTests }

RunTestInit ==
    /\ env = [url |-> Str("set"), key |-> Str("set")]
    /\ pc = "entry"
    /\ exitStatus = -1
    /\ suite = 0
    /\ role_name \in ArgRoles
    /\ branch_id \in ArgValues
    /\ user_id \in ArgValues
    /\ test_queries \in ArgTests
    /\ set_claims_sql = <<>>
    /\ idx = 0
    /\ dbClaims = NoClaims
    /\ log = <<>>
    /\ out = <<>>
    /\ faults = MaxTests + 2
    /\ db = {}
    /\ run = 1

RunTestNext ==
    \/ RunTestEntry
    \/ SetIdentity
    \/ RunQuery
    \/ ClearIdentity

RunTestSpec == RunTestInit /\ [][RunTestNext]_vars

----------------------------------------------------------------------------
(* Observations on the log and on the transcript *)

\* the remote calls of kind op issued by suite s, in the order of issue
Calls(s, op) == SelectSeq(log, LAMBDA c : c.suite = s /\ c.op = op)

SuitesSeen == {log[i].suite : i \in 1..Len(log)}

SetSucceeded(s) == \E i \in 1..Len(log) :
                      log[i].suite = s /\ log[i].op = "set" /\ log[i].ok
SetFailed(s) == \E i \in 1..Len(log) :
                   log[i].suite = s /\ log[i].op = "set" /\ ~log[i].ok

\* the run_test call of suite s has returned
Returned(s) ==
    /\ Calls(s, "set") # <<>>
    /\ s < suite \/ pc \in {"returned", "done"}

\* the test list of suite s
TestsOf(s) == IF s = suite THEN test_queries ELSE Catalog[s].tests

\* the verdict a printed line stands for
PassLines == {"PASS - Query executed successfully",
              "PASS - Query correctly blocked:",
              "Result:"}
Classification(text) ==
    IF text \in PassLines THEN "PASS"
    ELSE IF text = "UNEXPECTED - Query should have failed but succeeded"
         THEN "UNEXPECTED_SUCCESS"
    ELSE IF text = "FAIL - Unexpected error:" THEN "UNEXPECTED_FAIL"
    ELSE "NONE"

IsVerdict(line) == Classification(line.text) # "NONE"

\* all statements issued, and all verdict lines printed, in order
Queries == SelectSeq(log, LAMBDA c : c.op = "query")
Verdicts == SelectSeq(out, IsVerdict)

----------------------------------------------------------------------------
(* C1: in every run of run_test, the clear_test_jwt_claims call is issued  *)
(* exactly once before the run returns, also when the claim-setting call   *)
(* raised.                                                                 *)
C1_ClearedExactlyOnce ==
    pc = "returned" => Len(Calls(suite, "clear")) = 1

(* C2: when a suite is about to issue its claim-setting call, and when the *)
(* script has ended, no claims of an earlier suite are active on the       *)
(* connection.                                                             *)
C2_NoClaimsLeftActive ==
    pc \in {"set", "done"} => dbClaims = NoClaims

(* C3: the i-th verdict printed belongs to the i-th statement issued and   *)
(* follows the rule table: expectation SUCCESS gives PASS when the         *)
(* statement returned and UNEXPECTED_FAIL when it raised; expectation FAIL *)
(* gives PASS exactly when it raised and UNEXPECTED_SUCCESS when it        *)
(* returned.                                                               *)
C3_RuleTable ==
    LET qs == Queries
        vs == Verdicts
    IN /\ Len(vs) = Len(qs)
       /\ \A i \in 1..Len(qs) :
            LET q == qs[i]
                expected == TestsOf(q.suite)[q.idx].expected
                verdict == Classification(vs[i].text)
            IN /\ vs[i].suite = q.suite
               /\ expected = "SUCCESS" =>
                    verdict = (IF q.ok THEN "PASS" ELSE "UNEXPECTED_FAIL")
               /\ expected = "FAIL" =>
                    /\ verdict = "PASS" <=> ~q.ok
                    /\ q.ok => verdict = "UNEXPECTED_SUCCESS"

\* both anomalies and both kinds of PASS have been printed
C3_Witness ==
    LET qs == Queries
        Seen(expected, ok) ==
            \E i \in 1..Len(qs) :
               /\ TestsOf(qs[i].suite)[qs[i].idx].expected = expected
               /\ qs[i].ok = ok
    IN /\ Len(Verdicts) = Len(qs)
       /\ Seen("FAIL", TRUE)
       /\ Seen("SUCCESS", FALSE)
       /\ Seen("FAIL", FALSE)
       /\ Seen("SUCCESS", TRUE)

(* C4: a suite whose claim-setting call raised issues no statement and     *)
(* prints no test and no verdict line; the failure is printed once, in     *)
(* that suite's section; and when the script has ended every suite has     *)
(* issued its claim-setting call.                                          *)
FailureLines(s) ==
    SelectSeq(out, LAMBDA l : l.suite = s /\ l.text = "Failed to set JWT claims:")
TestLines(s) ==
    SelectSeq(out, LAMBDA l : l.suite = s /\ (l.text = "Test:" \/ IsVerdict(l)))

C4_SetFailureSkipsOnlyThatSuite ==
    /\ \A s \in SuitesSeen :
         /\ SetFailed(s) => /\ Calls(s, "query") = <<>>
                            /\ TestLines(s) = <<>>
                            /\ Len(FailureLines(s)) = 1
         /\ ~SetFailed(s) => FailureLines(s) = <<>>
    /\ (pc = "done" /\ exitStatus = 0) =>
         \A s \in 1..NumSuites : Len(Calls(s, "set")) = 1

\* the first suite's claim-setting call raised and the second suite ran
C4_Witness ==
    /\ pc = "done"
    /\ SetFailed(1)
    /\ Len(Calls(2, "query")) = Len(Catalog[2].tests)

(* C5: a suite whose claim-setting call returned issues its statements in  *)
(* declared order, each once; each is followed by exactly one verdict      *)
(* line; and when the suite has returned all of its cases have run, also   *)
(* after a statement raised.                                               *)
C5_EachCaseOnceInOrder ==
    \A s \in SuitesSeen :
      SetSucceeded(s) =>
        LET qs == Calls(s, "query")
            ls == TestLines(s)
            tests == TestsOf(s)
        IN /\ Len(qs) <= Len(tests)
           /\ \A i \in 1..Len(qs) :
                /\ qs[i].idx = i
                /\ qs[i].sql = <<tests[i].query>>
           /\ Len(ls) = 2 * Len(qs)
           /\ \A i \in 1..Len(qs) :
                /\ ls[2 * i - 1].text = "Test:"
                /\ ls[2 * i - 1].arg = tests[i].name
                /\ IsVerdict(ls[2 * i])
           /\ Returned(s) => Len(qs) = Len(tests)

\* a suite has returned in which a statement other than the last raised
C5_Witness ==
    \E s \in SuitesSeen :
      /\ SetSucceeded(s)
      /\ Returned(s)
      /\ \E i \in 1..Len(Calls(s, "query")) :
           /\ ~Calls(s, "query")[i].ok
           /\ i < Len(Calls(s, "query"))

(* C6: when both connection parameters are set, the script eventually      *)
(* ends with exit status 0 after printing the summary, and all five suites *)
(* have issued their claim-setting call, whichever remote calls raised.    *)
SummaryLines == SelectSeq(out, LAMBDA l : l.suite = 0 /\ l.text \in {"OK", "FAILED"})

Completed ==
    /\ pc = "done"
    /\ exitStatus = 0
    /\ Len(SummaryLines) = NumSuites
    /\ \A s \in 1..NumSuites : Len(Calls(s, "set")) = 1

C6_AlwaysCompletes ==
    (env.url \notin {None, Str("")} /\ env.key \notin {None, Str("")})
        => <>Completed

\* the script completed although the migration call and a later call raised
C6_Witness ==
    /\ Completed
    /\ \E i \in 1..Len(log) : log[i].op = "migration" /\ ~log[i].ok
    /\ \E i \in 1..Len(log) : log[i].op # "migration" /\ ~log[i].ok

(* C7: when the URL or the service key is missing, no remote call is ever  *)
(* issued, nothing of the test run is printed, and the script can only end *)
(* with exit status 1.                                                     *)
C7_MissingConfigAborts ==
    (env.url \in {None, Str("")} \/ env.key \in {None, Str("")}) =>
        /\ log = <<>>
        /\ pc \in {"config", "done"}
        /\ pc = "done" => exitStatus = 1
        /\ Len(out) <= 1

\* the script has exited with only one of the two parameters missing
C7_Witness ==
    /\ pc = "done"
    /\ exitStatus = 1
    /\ env.url = Str("set")
    /\ env.key = None

(* C8: the remote calls of the suites are issued suite after suite in the  *)
(* order AUDITOR, CLERK, MANAGER, ADMIN, MEMBER: no call of a later suite  *)
(* precedes a call of an earlier one, and a claim-setting call is issued   *)
(* only after the previous suite's run_test has returned.                  *)
RoleOrder == <<"AUDITOR", "CLERK", "MANAGER", "ADMIN", "MEMBER">>

C8_FixedSequentialOrder ==
    LET sets == SelectSeq(log, LAMBDA c : c.op = "set")
    IN /\ \A i \in 1..Len(log) - 1 : log[i].suite <= log[i + 1].suite
       /\ Len(sets) <= Len(RoleOrder)
       /\ \A k \in 1..Len(sets) :
            /\ sets[k].suite = k
            /\ sets[k].sql[1] = "'" \o RoleOrder[k] \o "'"
       /\ \A i \in 2..Len(log) :
            (log[i].op = "set" /\ log[i].suite > 1) =>
               /\ log[i - 1].suite = log[i].suite - 1
               /\ \/ log[i - 1].op = "clear"
                  \/ log[i - 1].op = "set" /\ ~log[i - 1].ok

\* all five suites have run and issued statements
C8_Witness ==
    /\ pc = "done"
    /\ \A s \in 1..NumSuites : Calls(s, "query") # <<>>

(* C9, as stated: the summary is determined by the verdicts, so a run in   *)
(* which some role has an anomaly or no verdict at all ends with a summary *)
(* different from the summary of the run in which every verdict is PASS.   *)
AllPass ==
    /\ \A i \in 1..Len(out) : IsVerdict(out[i]) => Classification(out[i].text) = "PASS"
    /\ \A s \in 1..NumSuites : SetSucceeded(s)

\* what the run in which every call has its nominal outcome prints
CleanSummary == <<"OK", "OK", "OK", "OK", "OK">>

C10_NullIffAbsent ==
    set_claims_sql # <<>> =>
        /\ set_claims_sql[2] = "NULL" <=> branch_id = None
        /\ set_claims_sql[3] = "NULL" <=> user_id = None
        /\ branch_id # None => set_claims_sql[2] = "'" \o branch_id[1] \o "'"
        /\ user_id # None => set_claims_sql[3] = "'" \o user_id[1] \o "'"

(* C11: a case whose expectation is neither SUCCESS nor FAIL gets the      *)
(* verdict PASS, printed with the returned data, when its statement        *)
(* returned, and UNEXPECTED_FAIL when it raised; it never gets             *)
(* UNEXPECTED_SUCCESS.                                                     *)
C11_OtherExpectations ==
    LET qs == Queries
        vs == Verdicts
    IN /\ Len(vs) = Len(qs)
       /\ \A i \in 1..Len(qs) :
            LET expected == TestsOf(qs[i].suite)[qs[i].idx].expected
                verdict == Classification(vs[i].text)
            IN expected \notin {"SUCCESS", "FAIL"} =>
                 /\ qs[i].ok => /\ verdict = "PASS"
                                /\ vs[i].text = "Result:"
                                /\ vs[i].arg = "data"
                 /\ ~qs[i].ok => verdict = "UNEXPECTED_FAIL"
                 /\ verdict # "UNEXPECTED_SUCCESS"

\* a run_test call has returned in which one such case returned and another raised
C11_Witness ==
    LET qs == Queries
    IN /\ pc = "returned"
       /\ Len(Verdicts) = Len(qs)
       /\ \E i, j \in 1..Len(qs) :
            /\ test_queries[qs[i].idx].expected \notin {"SUCCESS", "FAIL"}
            /\ test_queries[qs[j].idx].expected \notin {"SUCCESS", "FAIL"}
            /\ qs[i].ok
            /\ ~qs[j].ok

(* C12: every test statement is issued while the claims active on the      *)
(* connection are those of its own suite (role, branch, user), never those *)
(* of another suite and never none, also after a clear call of an earlier  *)
(* suite raised and left claims behind.                                    *)
Quoted(v) == IF v = None THEN "NULL" ELSE "'" \o v[1] \o "'"

IdentityOf(s) ==
    << "'" \o RoleOrder[s] \o "'", Quoted(Catalog[s].branch), Quoted(Catalog[s].user) >>

C12_StatementsUnderOwnIdentity ==
    \A i \in 1..Len(log) :
      log[i].op = "query" =>
        /\ log[i].claims # NoClaims
        /\ log[i].claims = IdentityOf(log[i].suite)

\* a statement ran in a suite whose claim-setting call was issued while the
\* claims of the previous suite were still active
C12_Witness ==
    \E i, j \in 1..Len(log) :
      /\ log[i].op = "set"
      /\ log[i].claims # NoClaims
      /\ log[j].op = "query"
      /\ log[j].suite = log[i].suite

(* C13: on a database that enforces primary keys and whose policies allow  *)
(* and deny exactly what the expectations declare, the second run of the   *)
(* script on the database left by the first run prints PASS for every      *)
(* case.                                                                   *)
C13_SecondRunAllPass ==
    run = 2 =>
        \A i \in 1..Len(out) :
           IsVerdict(out[i]) => Classification(out[i].text) = "PASS"

====
